---- MODULE Spec2Model ----
(***************************************************************************)
(* Model of the styling-rule extraction pipeline of src/vector.py:         *)
(* sentence segmentation, canonicalization, metadata extraction,           *)
(* confidence scoring, record building with the run-wide dedup set, and    *)
(* the main loop over the configured sources.                              *)
(*                                                                         *)
(* Python str values are TLA+ strings; a character is a string of length   *)
(* one.  A confidence is kept in hundredths (0.45 is 45): every value      *)
(* round(x, 2) can return here is a whole number of hundredths.  A         *)
(* metadata list, which the code stores as sorted(set(...)), is a set.     *)
(***************************************************************************)
EXTENDS Integers, Sequences, FiniteSets, TLC

VARIABLES
    STYLING_URLS,     \* configuration: the ordered URL list
    FILE_PATHS,       \* configuration: the ordered document path list
    pc,               \* position of main(): "urls", "print", "done"
    url_idx,          \* index of the next URL the for loop of main() takes
    seen_canonicals,  \* the run-wide set of lower-cased canonical texts
    all_records,      \* the records emitted so far, in emission order
    reads,            \* history: one entry per source read by main()
    phase,            \* which function was applied last, when applied on its own
    sentence,         \* argument of canonicalize_sentence
    canonical,        \* its result
    text,             \* argument of extract_metadata
    meta,             \* a Metadata value
    confidence        \* result of compute_confidence(meta), in hundredths

vars == <<STYLING_URLS, FILE_PATHS, pc, url_idx, seen_canonicals, all_records,
          reads, phase, sentence, canonical, text, meta, confidence>>

runVars == <<STYLING_URLS, FILE_PATHS, pc, url_idx, seen_canonicals,
             all_records, reads>>

fnVars == <<phase, sentence, canonical, text, meta, confidence>>

(***************************************************************************)
(* Bounds of the model.                                                    *)
(***************************************************************************)
MaxWords == 3

MaxMetaTerms == 2

MaxUrls == 3

MaxFiles == 1

(***************************************************************************)
(* Program constants.                                                      *)
(***************************************************************************)
MaxHeadingWords == 6

MinSentenceLen == 12

MinConfidence == 45

(***************************************************************************)
(* Controlled vocabulary, in the order of the source lists.                *)
(***************************************************************************)
FIT_TERMS == <<"oversized", "relaxed", "slim", "fitted", "tailored">>

COLOR_TERMS == <<"white", "black", "neutral", "beige", "earthy", "brown", "olive">>

STYLE_TERMS == <<"classic", "casual", "formal", "athleisure", "minimal", "polished">>

ITEM_TERMS == <<"t-shirt", "tee", "shirt", "jeans", "denim", "pants", "trousers",
                "skirt", "dress", "jacket", "blazer", "coat", "sweater", "joggers">>

OCCASION_TERMS == <<"casual", "everyday", "office", "formal", "weekend">>

LAYER_TERMS == <<"jacket", "blazer", "coat">>

PAIRING_VERBS == <<"pair", "combine", "match", "wear", "layer", "add">>

ACCESSORY_TERMS == <<"necklace", "jewelry", "earrings", "bracelet",
                     "choker", "ring", "hat", "scarf", "accessories">>

(***************************************************************************)
(* Characters and the str methods the pipeline uses.                       *)
(***************************************************************************)
\* The texts of the model are written in the alphabet below: the printable
\* ASCII characters that a string of this module can hold (all but the
\* grave accent) and the ASCII whitespace characters.  For a character
\* outside it the str methods and the patterns are not modelled: the
\* operators below have no value there (see Unspecified).
UpperAlphabet == "ABCDEFGHIJKLMNOPQRSTUVWXYZ"

LowerAlphabet == "abcdefghijklmnopqrstuvwxyz"

Digits == "0123456789"

Punctuation == "!\"#$%&'()*+,-./:;<=>?@[\\]^_{|}~"

Char(s, k) == SubSeq(s, k, k)

CharsOf(s) == {Char(s, k) : k \in 1..Len(s)}

UpperSet == CharsOf(UpperAlphabet)

LowerSet == CharsOf(LowerAlphabet)

WordChars == UpperSet \cup LowerSet \cup CharsOf(Digits) \cup {"_"}

\* the ASCII characters str.strip(), str.split() and the pattern \s take for
\* whitespace: tab, line feed, U+000B, form feed, carriage return,
\* U+001C..U+001F and space
Whitespace ==
    {"\t", "\n", "", "\f", "\r", "", "", "", "", " "}

Alphabet ==
    UpperSet \cup LowerSet \cup CharsOf(Digits) \cup CharsOf(Punctuation)
    \cup Whitespace

\* the value of a str method or a pattern test at a character outside the
\* alphabet: none is given (no x satisfies the CHOOSE, an evaluation that
\* reaches it stops with an error instead of an answer)
Unspecified(c) == CHOOSE x \in {} : x = c

\* c belongs to the class S of characters
InClass(c, S) == IF c \in Alphabet THEN c \in S ELSE Unspecified(c)

\* c matches \s, c.strip() == ""
IsSpace(c) == InClass(c, Whitespace)

\* c matches \w
IsWordChar(c) == InClass(c, WordChars)

\* c.isupper()
IsUpper(c) == InClass(c, UpperSet)

\* c.islower()
IsLower(c) == InClass(c, LowerSet)

\* str.lower() of one character
LowerChar(c) ==
    IF c \in UpperSet
    THEN Char(LowerAlphabet,
              CHOOSE k \in 1..Len(UpperAlphabet) : Char(UpperAlphabet, k) = c)
    ELSE IF c \in Alphabet THEN c
    ELSE Unspecified(c)

\* what str.capitalize() makes of a first character
UpperChar(c) ==
    IF c \in LowerSet
    THEN Char(UpperAlphabet,
              CHOOSE k \in 1..Len(LowerAlphabet) : Char(LowerAlphabet, k) = c)
    ELSE IF c \in Alphabet THEN c
    ELSE Unspecified(c)

\* the characters lo..hi of s, each lower-cased (the range is halved so that
\* the evaluation depth stays logarithmic in the length)
RECURSIVE LowerRange(_, _, _)
LowerRange(s, lo, hi) ==
    IF lo > hi THEN ""
    ELSE IF lo = hi THEN LowerChar(Char(s, lo))
    ELSE LET mid == (lo + hi) \div 2
         IN  LowerRange(s, lo, mid) \o LowerRange(s, mid + 1, hi)

\* str.lower()
Lower(s) == LowerRange(s, 1, Len(s))

\* index of the first character of s that is not whitespace
FirstInk(s) ==
    CHOOSE k \in 1..Len(s) :
        ~IsSpace(Char(s, k)) /\ \A j \in 1..(k - 1) : IsSpace(Char(s, j))

\* index of the last character of s that is not whitespace
LastInk(s) ==
    CHOOSE k \in 1..Len(s) :
        ~IsSpace(Char(s, k)) /\ \A j \in (k + 1)..Len(s) : IsSpace(Char(s, j))

\* str.strip()
Strip(s) ==
    IF \A k \in 1..Len(s) : IsSpace(Char(s, k)) THEN ""
    ELSE SubSeq(s, FirstInk(s), LastInk(s))

\* sub in s
Contains(sub, s) ==
    \E k \in 1..(Len(s) - Len(sub) + 1) : SubSeq(s, k, k + Len(sub) - 1) = sub

\* len(s.split()): the number of maximal runs of non-whitespace
WordCount(s) ==
    Cardinality({k \in 1..Len(s) :
                    /\ ~IsSpace(Char(s, k))
                    /\ (k = 1 \/ IsSpace(Char(s, k - 1)))})

\* str.capitalize(): first character upper-cased, the rest lower-cased
Capitalize(s) ==
    IF s = "" THEN "" ELSE UpperChar(Char(s, 1)) \o Lower(SubSeq(s, 2, Len(s)))

\* what character k of s becomes: a whitespace run is one space, written at
\* the run's first character
CollapsedAt(s, k) ==
    IF IsSpace(Char(s, k))
    THEN (IF k > 1 /\ IsSpace(Char(s, k - 1)) THEN "" ELSE " ")
    ELSE Char(s, k)

RECURSIVE CollapseRange(_, _, _)
CollapseRange(s, lo, hi) ==
    IF lo > hi THEN ""
    ELSE IF lo = hi THEN CollapsedAt(s, lo)
    ELSE LET mid == (lo + hi) \div 2
         IN  CollapseRange(s, lo, mid) \o CollapseRange(s, mid + 1, hi)

\* re.sub(r'\s+', ' ', s)
CollapseSpaces(s) == CollapseRange(s, 1, Len(s))

\* pat matches at k with a word boundary on both sides (pat starts and ends
\* with a word character)
WordMatchAt(pat, s, k) ==
    /\ k + Len(pat) - 1 <= Len(s)
    /\ SubSeq(s, k, k + Len(pat) - 1) = pat
    /\ (k = 1 \/ ~IsWordChar(Char(s, k - 1)))
    /\ (k + Len(pat) > Len(s) \/ ~IsWordChar(Char(s, k + Len(pat))))

\* what character k of s becomes: rep where a match starts, nothing inside a
\* match, itself elsewhere.  No two matches overlap: a match starts and ends
\* at a word boundary and none of the patterns used has a proper prefix that
\* is also its suffix, so this is the leftmost non-overlapping scan of re.sub.
SubWordAt(pat, rep, s, k) ==
    IF WordMatchAt(pat, s, k) THEN rep
    ELSE IF \E j \in (k - Len(pat) + 1)..(k - 1) : j >= 1 /\ WordMatchAt(pat, s, j)
         THEN ""
         ELSE Char(s, k)

RECURSIVE SubWordRange(_, _, _, _, _)
SubWordRange(pat, rep, s, lo, hi) ==
    IF lo > hi THEN ""
    ELSE IF lo = hi THEN SubWordAt(pat, rep, s, lo)
    ELSE LET mid == (lo + hi) \div 2
         IN  SubWordRange(pat, rep, s, lo, mid)
             \o SubWordRange(pat, rep, s, mid + 1, hi)

\* re.sub(r'\bpat\b', rep, s); a text without pat is returned as it is
SubWord(pat, rep, s) ==
    IF Contains(pat, s) THEN SubWordRange(pat, rep, s, 1, Len(s)) ELSE s

(***************************************************************************)
(* Text processing.                                                        *)
(***************************************************************************)
RECURSIVE ReplaceNewlinesRange(_, _, _)
ReplaceNewlinesRange(s, lo, hi) ==
    IF lo > hi THEN ""
    ELSE IF lo = hi THEN (IF Char(s, lo) = "\n" THEN " " ELSE Char(s, lo))
    ELSE LET mid == (lo + hi) \div 2
         IN  ReplaceNewlinesRange(s, lo, mid) \o ReplaceNewlinesRange(s, mid + 1, hi)

\* text.replace("\n", " ")
ReplaceNewlines(s) == ReplaceNewlinesRange(s, 1, Len(s))

SentenceEnders == {".", "!", "?"}

\* where re.split(r'(?<=[.!?])\s+', s) cuts: at the first character of a
\* whitespace run that follows a sentence ender
IsCut(s, k) ==
    k > 1 /\ IsSpace(Char(s, k)) /\ Char(s, k - 1) \in SentenceEnders

Cuts(s) == {k \in 1..Len(s) : IsCut(s, k)}

\* the n-th cut of s, counted from the left
NthCut(s, n) ==
    CHOOSE k \in Cuts(s) : Cardinality({j \in Cuts(s) : j <= k}) = n

\* first index after the whitespace run that starts at k
AfterRun(s, k) ==
    IF \A j \in k..Len(s) : IsSpace(Char(s, j)) THEN Len(s) + 1
    ELSE CHOOSE j \in k..Len(s) :
            ~IsSpace(Char(s, j)) /\ \A i \in k..(j - 1) : IsSpace(Char(s, i))

\* re.split(r'(?<=[.!?])\s+', s): one piece more than there are cuts
SplitSentences(s) ==
    LET n == Cardinality(Cuts(s))
    IN  [p \in 1..(n + 1) |->
            SubSeq(s,
                   IF p = 1 THEN 1 ELSE AfterRun(s, NthCut(s, p - 1)),
                   IF p = n + 1 THEN Len(s) ELSE NthCut(s, p) - 1)]

IsLongEnough(p) == Len(p) > MinSentenceLen

\* [s.strip() for s in pieces if len(s.strip()) > 12]
KeepLong(pieces) ==
    SelectSeq([p \in 1..Len(pieces) |-> Strip(pieces[p])], IsLongEnough)

split_sentences(txt) ==
    LET t == Strip(CollapseSpaces(ReplaceNewlines(txt)))
    IN  KeepLong(SplitSentences(t))

contains_any(terms, txt) ==
    LET t == Lower(txt)
    IN  \E k \in 1..Len(terms) : Contains(terms[k], t)

(***************************************************************************)
(* Canonicalization.                                                       *)
(***************************************************************************)
\* step 1: drop a heading of at most MaxHeadingWords words before the first colon
strip_heading(s) ==
    IF Contains(":", s)
    THEN LET c == CHOOSE k \in 1..Len(s) :
                      Char(s, k) = ":" /\ \A j \in 1..(k - 1) : Char(s, j) # ":"
             left == SubSeq(s, 1, c - 1)
             right == SubSeq(s, c + 1, Len(s))
         IN  IF WordCount(left) <= MaxHeadingWords THEN Strip(right) ELSE s
    ELSE s

\* step 2: accessory terms without any clothing item
accessory_only(s) ==
    contains_any(ACCESSORY_TERMS, s) /\ ~contains_any(ITEM_TERMS, s)

\* variant: the "baggy" rewrite is missing
normalize_wording_without_baggy(s) ==
    Strip(CollapseSpaces(
        SubWord("slim-fit", "slim",
            SubWord("loose", "relaxed", s))))

\* the three synonym rewrites, in source order, then the whitespace collapse
normalize_wording(s) ==
    Strip(CollapseSpaces(
        SubWord("slim-fit", "slim",
            SubWord("loose", "relaxed",
                SubWord("baggy", "oversized", s)))))

\* variant: the first test joins verb and item with "or"
is_actionable_without_item(s) ==
    \/ contains_any(PAIRING_VERBS, s) \/ contains_any(ITEM_TERMS, s)
    \/ contains_any(LAYER_TERMS, s) /\ contains_any(ITEM_TERMS, s)

\* "must be actionable" or "layering rule with clothing"
is_actionable(s) ==
    \/ contains_any(PAIRING_VERBS, s) /\ contains_any(ITEM_TERMS, s)
    \/ contains_any(LAYER_TERMS, s) /\ contains_any(ITEM_TERMS, s)

\* variant: the period is appended without capitalize()
finish_statement_uncapitalized(s) == s \o "."

\* what an accepted text is returned as
finish_statement(s) == Capitalize(s) \o "."

canonicalize_sentence(sent) ==
    LET s == Lower(strip_heading(Strip(sent)))
    IN  IF accessory_only(s) THEN ""
        ELSE LET n == normalize_wording(s)
             IN  IF is_actionable(n) THEN finish_statement(n) ELSE ""

(***************************************************************************)
(* Metadata and confidence.                                                *)
(***************************************************************************)
TermsIn(terms, t) == {terms[k] : k \in {j \in 1..Len(terms) : Contains(terms[j], t)}}

\* variant: the "tailored" rule is missing
inferred_style_without_polished(items, color, fit) ==
    (IF "blazer" \in items THEN {"classic"} ELSE {})
    \cup (IF "denim" \in items \/ "jeans" \in items THEN {"classic"} ELSE {})
    \cup (IF "white" \in color \/ "neutral" \in color THEN {"minimal"} ELSE {})

\* the "implicit inference" additions to style
inferred_style(items, color, fit) ==
    (IF "blazer" \in items THEN {"classic"} ELSE {})
    \cup (IF "denim" \in items \/ "jeans" \in items THEN {"classic"} ELSE {})
    \cup (IF "white" \in color \/ "neutral" \in color THEN {"minimal"} ELSE {})
    \cup (IF "tailored" \in fit THEN {"polished"} ELSE {})

\* layering: the layer-term test, then the blazer rule
infer_layering(items, t) ==
    IF "blazer" \in items THEN TRUE ELSE contains_any(LAYER_TERMS, t)

extract_metadata(txt) ==
    LET t == Lower(txt)
        fit == TermsIn(FIT_TERMS, t)
        color == TermsIn(COLOR_TERMS, t)
        items == TermsIn(ITEM_TERMS, t)
    IN  [fit |-> fit,
         color |-> color,
         style |-> TermsIn(STYLE_TERMS, t) \cup inferred_style(items, color, fit),
         items |-> items,
         occasion |-> TermsIn(OCCASION_TERMS, t),
         layering |-> infer_layering(items, t)]

\* twice the raw score, so that the 0.5 of layering is a whole number
raw_score_halves(m) ==
    (IF m.items # {} THEN 4 ELSE 0)
    + (IF m.fit # {} THEN 2 ELSE 0)
    + (IF m.color # {} THEN 2 ELSE 0)
    + (IF m.style # {} THEN 2 ELSE 0)
    + (IF m.occasion # {} THEN 2 ELSE 0)
    + (IF m.layering THEN 1 ELSE 0)

\* variant: the raw score is divided by 5, not by 6
compute_confidence_over_five(m) ==
    LET h == raw_score_halves(m)
    IN  IF h > 10 THEN 100 ELSE 10 * h

\* variant: min(..., 1) is missing
compute_confidence_uncapped(m) == (25 * raw_score_halves(m) + 1) \div 3

\* round(min(score / 6, 1), 2) in hundredths: score / 6 * 100 = 25 * halves / 3,
\* whose fraction is 0, 1/3 or 2/3, so rounding to nearest never meets a tie
compute_confidence(m) ==
    LET h == raw_score_halves(m)
        capped == IF h > 12 THEN 12 ELSE h
    IN  (25 * capped + 1) \div 3

(***************************************************************************)
(* Record building.                                                        *)
(***************************************************************************)
\* variant: the minimum-quality rule is missing
hard_rules_reject_without_floor(canon, m, conf) ==
    \/ canon = ""
    \/ m.items = {}

\* the guards before the dedup test: empty canonical text, no clothing item,
\* confidence under the floor (m and conf are only used when canon is non-empty)
hard_rules_reject(canon, m, conf) ==
    \/ canon = ""
    \/ m.items = {}
    \/ conf < MinConfidence

\* variant: the seen set is never consulted
already_seen_never(canon_key, seen) == FALSE

\* global dedup on the lower-cased canonical text
already_seen(canon_key, seen) == canon_key \in seen

\* one pass of the for loop of build_records over sents[k..]; acc carries
\* the records list and the seen set
RECURSIVE BuildFrom(_, _, _, _)
BuildFrom(source, sents, k, acc) ==
    IF k > Len(sents) THEN acc
    ELSE LET sent == sents[k]
             canon == canonicalize_sentence(sent)
             m == extract_metadata(canon)
             conf == compute_confidence(m)
             canon_key == Lower(canon)
         IN  IF hard_rules_reject(canon, m, conf) \/ already_seen(canon_key, acc.seen)
             THEN BuildFrom(source, sents, k + 1, acc)
             ELSE BuildFrom(source, sents, k + 1,
                    [records |-> Append(acc.records,
                                   [id |-> Cardinality(acc.seen) + 1,
                                    source |-> source,
                                    canonical_text |-> canon,
                                    metadata |-> m,
                                    confidence |-> conf,
                                    raw_text |-> sent]),
                     seen |-> acc.seen \cup {canon_key}])

\* returns the records of this source and the seen set as the call leaves it
\* (the code mutates the caller's set in place); id stands for uuid4()
build_records(source, txt, seen) ==
    BuildFrom(source, split_sentences(txt), 1, [records |-> <<>>, seen |-> seen])

(***************************************************************************)
(* Inputs.                                                                 *)
(***************************************************************************)
\* the URL and file lists of the source, commented-out entries included; a
\* configuration is a prefix of each
URL_POOL ==
    <<"https://www.masarishop.com/newsroom/fashion-style/mix-and-match-outfit-ideas-creative-ways-to-elevate-your-style.html",
      "https://www.masarishop.com/newsroom/fashion-style/6-clothing-styles-for-you-to-wear.html",
      "https://www.masarishop.com/newsroom/fashion-style/color-combination-outfit-guide-for-2025-how-to-mix-and-match-perfectly.html",
      "https://isufashion.com/blogs/news/how-to-mix-combos-to-create-new-outfit-ideas-every-time",
      "https://withliana.com/how-to-put-together-an-outfit-fashion-101/">>

FILE_POOL ==
    <<"Tops vs Trousers.docx", "headgears.pdf", "eyewear.pdf", "5. Pants.pptx",
      "4. Skirt.pptx">>

Prefixes(pool, n) == {SubSeq(pool, 1, k) : k \in 0..n}

RECURSIVE JoinWith(_, _)
JoinWith(sep, parts) ==
    IF parts = <<>> THEN ""
    ELSE IF Len(parts) = 1 THEN parts[1]
    ELSE parts[1] \o sep \o JoinWith(sep, Tail(parts))

SeqsUpTo(S, n) == UNION {[1..k -> S] : k \in 0..n}

\* the texts a page may come to: nothing; a rule and its case variant (a
\* duplicate inside one source); a second rule followed, after a CR LF line
\* break, by the first (a duplicate across sources); the second rule alone; and three sentences
\* that are all dropped (under the confidence floor, accessory-only, too
\* short for the segmenter)
Texts ==
    {"",
     "Wear a tailored blazer over jeans. WEAR A TAILORED BLAZER OVER JEANS.",
     "Pair a white shirt with relaxed jeans!\r\nWear a tailored blazer over jeans.",
     "Pair a white shirt with relaxed jeans!",
     "Layer a jacket over it. Pair your choker and earrings beautifully. Wear jeans."}

\* what requests.get and the HTML parse come to: body is the joined text of
\* the content blocks of whatever was received; ok is FALSE when the try
\* block raises (no connection: nothing received; an error status: a body
\* was received and raise_for_status raises)
Responses == [ok : BOOLEAN, body : Texts]

\* words of the sentences the functions are applied to on their own; the
\* last one is a carriage return, whitespace other than the joining space
Words ==
    {"Tip:", "wear", "blazer", "jeans.", "choker", "baggy", "trousers",
     "slim-fit", "white", "tailored", "3", "casual", "loose", "superbaggy",
     "\r"}

Sentences == {JoinWith(" ", ws) : ws \in SeqsUpTo(Words, MaxWords)} \ {""}

FirstTerms(terms) ==
    {terms[k] : k \in {j \in 1..Len(terms) : j <= MaxMetaTerms}}

Metadatas ==
    [fit : SUBSET FirstTerms(FIT_TERMS),
     color : SUBSET FirstTerms(COLOR_TERMS),
     style : SUBSET FirstTerms(STYLE_TERMS),
     items : SUBSET FirstTerms(ITEM_TERMS),
     occasion : SUBSET FirstTerms(OCCASION_TERMS),
     layering : BOOLEAN]

EmptyMeta ==
    [fit |-> {}, color |-> {}, style |-> {}, items |-> {}, occasion |-> {},
     layering |-> FALSE]

(***************************************************************************)
(* The run: main().                                                        *)
(***************************************************************************)
\* the try/except of extract_text_from_url: any exception gives ""
extract_text_from_url(resp) == IF resp.ok THEN resp.body ELSE ""

\* the try/except of extract_text_from_docx, extract_text_from_pdf and
\* extract_text_from_pptx: any exception gives "" (main never calls them)
extract_text_from_document(resp) == IF resp.ok THEN resp.body ELSE ""

RunInit ==
    /\ STYLING_URLS \in Prefixes(URL_POOL, MaxUrls)
    /\ FILE_PATHS \in Prefixes(FILE_POOL, MaxFiles)
    /\ pc = "urls"
    /\ url_idx = 1
    /\ seen_canonicals = {}
    /\ all_records = <<>>
    /\ reads = <<>>

FnIdle ==
    /\ phase = "idle"
    /\ sentence = ""
    /\ canonical = ""
    /\ text = ""
    /\ meta = EmptyMeta
    /\ confidence = 0

Init == RunInit /\ FnIdle

\* one iteration of "for url in STYLING_URLS"
ProcessUrl ==
    /\ pc = "urls"
    /\ url_idx <= Len(STYLING_URLS)
    /\ \E resp \in Responses :
          LET url == STYLING_URLS[url_idx]
              txt == extract_text_from_url(resp)
              out == build_records(url, txt, seen_canonicals)
          IN  /\ all_records' = all_records \o out.records
              /\ seen_canonicals' = out.seen
              /\ reads' = Append(reads,
                            [source |-> url, ok |-> resp.ok, text |-> txt,
                             records |-> out.records,
                             seen_before |-> seen_canonicals,
                             seen_after |-> out.seen])
    /\ url_idx' = url_idx + 1
    /\ UNCHANGED <<STYLING_URLS, FILE_PATHS, pc>>
    /\ UNCHANGED fnVars

\* the loop is exhausted: the total and every record are printed, main returns
PrintAll ==
    /\ pc = "urls"
    /\ url_idx > Len(STYLING_URLS)
    /\ pc' = "done"
    /\ UNCHANGED <<STYLING_URLS, FILE_PATHS, url_idx, seen_canonicals,
                   all_records, reads>>
    /\ UNCHANGED fnVars

Next == ProcessUrl \/ PrintAll

Spec == Init /\ [][Next]_vars

(***************************************************************************)
(* The functions on their own: each action applies one function of the     *)
(* pipeline to an input drawn at the start.                                *)
(***************************************************************************)
RunIdle ==
    /\ STYLING_URLS = <<>>
    /\ FILE_PATHS = <<>>
    /\ pc = "done"
    /\ url_idx = 1
    /\ seen_canonicals = {}
    /\ all_records = <<>>
    /\ reads = <<>>

FnInit ==
    /\ RunIdle
    /\ canonical = ""
    /\ text = ""
    /\ confidence = 0
    /\ \/ phase = "sentence" /\ sentence \in Sentences /\ meta = EmptyMeta
       \/ phase = "given" /\ sentence = "" /\ meta \in Metadatas

Canonicalize ==
    /\ phase = "sentence"
    /\ canonical' = canonicalize_sentence(sentence)
    /\ phase' = "canonical"
    /\ UNCHANGED <<sentence, text, meta, confidence>>
    /\ UNCHANGED runVars

\* canonicalize_sentence applied to a statement it returned
Recanonicalize ==
    /\ phase = "canonical"
    /\ canonical # ""
    /\ sentence' = canonical
    /\ canonical' = canonicalize_sentence(canonical)
    /\ phase' = "recanonical"
    /\ UNCHANGED <<text, meta, confidence>>
    /\ UNCHANGED runVars

\* extract_metadata on a raw sentence or, as build_records calls it, on an
\* accepted canonical statement
ExtractMetadata ==
    /\ \/ phase = "sentence" /\ text' = sentence
       \/ phase = "canonical" /\ canonical # "" /\ text' = canonical
    /\ meta' = extract_metadata(text')
    /\ phase' = "extracted"
    /\ UNCHANGED <<sentence, canonical, confidence>>
    /\ UNCHANGED runVars

ComputeConfidence ==
    /\ phase \in {"extracted", "given"}
    /\ confidence' = compute_confidence(meta)
    /\ phase' = "scored"
    /\ UNCHANGED <<sentence, canonical, text, meta>>
    /\ UNCHANGED runVars

FnNext == Canonicalize \/ Recanonicalize \/ ExtractMetadata \/ ComputeConfidence

FnSpec == FnInit /\ [][FnNext]_vars

(***************************************************************************)
(* Properties of the run (checked under Spec).                             *)
(***************************************************************************)
RecordIndexes == 1..Len(all_records)

\* C1: global uniqueness.  No two distinct emitted records of one run have
\* the same canonical text up to letter case, whether the sentence came
\* twice from one source or from two sources.
C1_GlobalUniqueness ==
    \A a, b \in RecordIndexes :
        a # b => Lower(all_records[a].canonical_text)
                 # Lower(all_records[b].canonical_text)

\* C1 witness: a source whose text held the same rule twice (as a case
\* variant) gave one record, and a later source holding that rule again
\* gave none for it.
C1_Witness ==
    \E j, k \in 1..Len(reads) :
        /\ j < k
        /\ reads[j].text = "Wear a tailored blazer over jeans. WEAR A TAILORED BLAZER OVER JEANS."
        /\ Len(reads[j].records) = 1
        /\ reads[k].text = "Pair a white shirt with relaxed jeans!\r\nWear a tailored blazer over jeans."
        /\ Len(reads[k].records) = 1

\* C2: every emitted record has a non-empty items list and a confidence of
\* at least 0.45.
C2_RecordFloor ==
    \A a \in RecordIndexes :
        /\ all_records[a].metadata.items # {}
        /\ all_records[a].confidence >= MinConfidence

\* C2 witness: a source held an actionable sentence with a clothing item
\* whose confidence is under the floor (0.42), nothing was emitted for
\* it, and records of other sources exist.
C2_Witness ==
    /\ all_records # <<>>
    /\ \E k \in 1..Len(reads) :
          /\ Contains("Layer a jacket over it.", reads[k].text)
          /\ canonicalize_sentence("Layer a jacket over it.") # ""
          /\ compute_confidence(extract_metadata(
                 canonicalize_sentence("Layer a jacket over it."))) < MinConfidence
          /\ reads[k].records = <<>>

\* the records of reads[1..n], one source after the other
RECURSIVE RecordsOfReads(_)
RecordsOfReads(n) ==
    IF n = 0 THEN <<>> ELSE RecordsOfReads(n - 1) \o reads[n].records

SourcesRead == [k \in 1..Len(reads) |-> reads[k].source]

\* the configured sources, the URLs and then the document paths
ConfiguredSources == STYLING_URLS \o FILE_PATHS

\* C7 as stated: a failed read gives the empty string, build_records on it
\* emits no record and leaves the seen set as it was; the run is not
\* stopped by it (until main returns, a next step exists); and when main
\* has returned after a failed read, every configured source, the
\* document paths included, has been processed and the records of the
\* other sources are all there.
C7_FailSoft ==
    /\ \A k \in 1..Len(reads) :
          ~reads[k].ok =>
              /\ reads[k].text = ""
              /\ reads[k].records = <<>>
              /\ reads[k].seen_after = reads[k].seen_before
    /\ pc = "done" \/ ENABLED Next
    /\ (pc = "done" /\ \E k \in 1..Len(reads) : ~reads[k].ok) =>
          /\ SourcesRead = ConfiguredSources
          /\ all_records = RecordsOfReads(Len(reads))

\* C8 as stated: with no source configured at all the run fails, it does
\* not complete normally.
C8_NoSourcesAborts ==
    (STYLING_URLS = <<>> /\ FILE_PATHS = <<>>) => pc # "done"

\* C9 as stated: when main has returned, every configured source, the URLs
\* and then the document paths, has been read exactly once, in configured
\* order, and the records appear in that order.
C9_EverySourceRead ==
    pc = "done" =>
        /\ SourcesRead = ConfiguredSources
        /\ all_records = RecordsOfReads(Len(reads))

(***************************************************************************)
(* Properties of the functions (checked under FnSpec).                     *)
(***************************************************************************)
EndsWithPeriod(s) == Len(s) > 0 /\ Char(s, Len(s)) = "."

IsLetter(c) == IsUpper(c) \/ IsLower(c)

Accepted == phase = "canonical" /\ canonical # ""

\* the text canonicalize_sentence works on after its strip and heading strip
Remainder(sent) == strip_heading(Strip(sent))

\* C3 as stated: every non-empty statement canonicalize_sentence returns
\* ends with "." and its first character is an uppercase letter, whatever the
\* first character of the remaining text is.
C3_AsStated ==
    Accepted => EndsWithPeriod(canonical) /\ IsUpper(Char(canonical, 1))

\* C3 amended: every non-empty statement canonicalize_sentence returns
\* ends with "."; its first character is an uppercase letter whenever the
\* remaining text (after the strip and the heading strip) begins with a
\* letter a-z or A-Z; a first character that is a digit, a quote or
\* punctuation is returned as it is.
C3_CapitalizedWhenLetter ==
    Accepted =>
        /\ EndsWithPeriod(canonical)
        /\ IsLetter(Char(Remainder(sentence), 1)) => IsUpper(Char(canonical, 1))
        /\ ~IsLetter(Char(Remainder(sentence), 1))
              => Char(canonical, 1) = Char(Remainder(sentence), 1)

\* C3 witness: an accepted statement whose remaining text begins with a
\* digit, which stays the first character.
C3_Witness ==
    /\ Accepted
    /\ Char(Remainder(sentence), 1) = "3"
    /\ Char(canonical, 1) = "3"

\* C4: a non-empty result contains (up to letter case, as contains_any
\* tests) a clothing-item term together with a pairing verb or a layering
\* term; and a sentence that matches an accessory term and no item term
\* gives the empty string.
C4_AcceptedOnlyWithItem ==
    phase = "canonical" =>
        /\ canonical # "" =>
              /\ contains_any(ITEM_TERMS, canonical)
              /\ \/ contains_any(PAIRING_VERBS, canonical)
                 \/ contains_any(LAYER_TERMS, canonical)
        /\ (contains_any(ACCESSORY_TERMS, sentence)
              /\ ~contains_any(ITEM_TERMS, sentence)) => canonical = ""
        /\ ~contains_any(ITEM_TERMS, sentence) => canonical = ""

\* C4 witness: a sentence with a pairing verb and an accessory term but no
\* item term was canonicalized, and rejected.
C4_Witness ==
    /\ phase = "canonical"
    /\ contains_any(PAIRING_VERBS, sentence)
    /\ contains_any(ACCESSORY_TERMS, sentence)
    /\ ~contains_any(ITEM_TERMS, sentence)
    /\ canonical = ""

\* C5 as stated: canonicalize_sentence applied to a statement it accepted
\* returns that statement unchanged (no second capital, no second period).
C5_Idempotent ==
    phase = "recanonical" => canonical = sentence

Categories == {"fit", "color", "style", "items", "occasion"}

\* the vocabulary of a list-valued category of a Metadata
Vocabulary(cat) ==
    CASE cat = "fit" -> FIT_TERMS
      [] cat = "color" -> COLOR_TERMS
      [] cat = "style" -> STYLE_TERMS
      [] cat = "items" -> ITEM_TERMS
      [] cat = "occasion" -> OCCASION_TERMS

\* every Metadata that is m with one previously absent term added to one
\* category, or m with layering set
Enlarged(m) ==
    {[m EXCEPT !.layering = TRUE]}
    \cup UNION {{[m EXCEPT ![cat] = @ \cup {Vocabulary(cat)[k]}] :
                    k \in {j \in 1..Len(Vocabulary(cat)) :
                              Vocabulary(cat)[j] \notin m[cat]}} :
                cat \in Categories}

\* C6: the confidence of every Metadata lies in [0, 1] (0..100 hundredths),
\* and adding a previously absent term to any category, or setting
\* layering, never gives a lower confidence.
C6_ConfidenceBoundedMonotone ==
    phase = "scored" =>
        /\ 0 <= confidence /\ confidence <= 100
        /\ \A m2 \in Enlarged(meta) :
              /\ 0 <= compute_confidence(m2) /\ compute_confidence(m2) <= 100
              /\ compute_confidence(m2) >= confidence

\* C6 witness: a Metadata with every category populated but layering unset
\* was scored at the ceiling, and setting layering leaves it there (the raw
\* score passes 6 and is capped).
C6_Witness ==
    /\ phase = "scored"
    /\ \A cat \in Categories : meta[cat] # {}
    /\ ~meta.layering
    /\ confidence = 100
    /\ compute_confidence([meta EXCEPT !.layering = TRUE]) = 100

\* C10: in the result of extract_metadata, layering is true exactly when a
\* layering term (jacket, blazer, coat) occurs in the text; item "blazer"
\* gives style "classic" and layering; item "denim" or "jeans" gives style
\* "classic"; color "white" or "neutral" gives style "minimal"; fit
\* "tailored" gives style "polished".
C10_MetadataInference ==
    phase = "extracted" =>
        /\ meta.layering <=> contains_any(LAYER_TERMS, text)
        /\ "blazer" \in meta.items => "classic" \in meta.style /\ meta.layering
        /\ ("denim" \in meta.items \/ "jeans" \in meta.items)
              => "classic" \in meta.style
        /\ ("white" \in meta.color \/ "neutral" \in meta.color)
              => "minimal" \in meta.style
        /\ "tailored" \in meta.fit => "polished" \in meta.style

\* C10 witness: metadata was extracted from a text with "tailored", "white"
\* and "blazer" that names none of the styles itself.
C10_Witness ==
    /\ phase = "extracted"
    /\ "blazer" \in meta.items
    /\ "tailored" \in meta.fit
    /\ "white" \in meta.color
    /\ meta.layering
    /\ ~contains_any(STYLE_TERMS, text)
    /\ meta.style = {"classic", "minimal", "polished"}

\* C11 as stated: a confidence of 1.0 implies that items, fit, color, style
\* and occasion are all non-empty and that layering is true.
C11_CeilingNeedsLayering ==
    (phase = "scored" /\ confidence = 100) =>
        /\ \A cat \in Categories : meta[cat] # {}
        /\ meta.layering

\* C11 amended: a confidence of 1.0 implies that items, fit, color, style
\* and occasion are all non-empty; layering need not be set, the five
\* categories alone give a raw score of 6 and 6 / 6 = 1.0.  Conversely a
\* Metadata with the five categories populated scores 1.0 with or without
\* layering.
C11_CeilingNeedsCategories ==
    phase = "scored" =>
        (confidence = 100 <=> \A cat \in Categories : meta[cat] # {})

\* C11 witness: a Metadata without layering was scored 1.0 from a raw score
\* of exactly 6 (12 halves).
C11_Witness ==
    /\ phase = "scored"
    /\ confidence = 100
    /\ meta.layering = FALSE
    /\ raw_score_halves(meta) = 12

\* pat occurs in s as a whole word (between word boundaries)
HasWord(pat, s) == \E k \in 1..Len(s) : WordMatchAt(pat, s, k)

\* the phrase occurs in s with its first word, of length n, starting at a
\* word boundary and ending at one
HasPhraseAtWord(phrase, n, s) ==
    \E k \in 1..Len(s) :
        /\ WordMatchAt(SubSeq(phrase, 1, n), s, k)
        /\ k + Len(phrase) - 1 <= Len(s)
        /\ SubSeq(s, k, k + Len(phrase) - 1) = phrase

\* C12 as stated: for every input sentence containing "baggy trousers" the
\* canonical text contains "oversized trousers" and does not contain
\* "baggy" (letter case set aside).
C12_AsStated ==
    (phase = "canonical" /\ Contains("baggy trousers", Lower(sentence))) =>
        /\ Contains("oversized trousers", Lower(canonical))
        /\ ~Contains("baggy", Lower(canonical))

\* C12 amended: for every input sentence that canonicalize_sentence accepts
\* and whose remaining text (after the strip and the heading strip) holds
\* "baggy trousers" with "baggy" as a whole word, the canonical text
\* contains, letter case set aside, "oversized trousers"; no accepted
\* canonical text holds "baggy" or "loose" as a whole word; a whole word
\* "baggy" or "loose" of the remaining text gives "oversized" or "relaxed"
\* in the canonical text; and the canonical text holds "slim-fit" as a
\* whole word only where the remaining text had "slim-fit-fit" (the one
\* rewrite of "slim-fit" leaves "slim-fit" there).
C12_SynonymsRewritten ==
    Accepted =>
        LET r == Lower(Remainder(sentence))
            c == Lower(canonical)
        IN  /\ HasPhraseAtWord("baggy trousers", 5, r)
                  => Contains("oversized trousers", c)
            /\ ~HasWord("baggy", c)
            /\ ~HasWord("loose", c)
            /\ HasWord("baggy", r) => Contains("oversized", c)
            /\ HasWord("loose", r) => Contains("relaxed", c)
            /\ HasWord("slim-fit", c) => Contains("slim-fit-fit", r)

\* C12 witness: an accepted sentence with the whole words "baggy trousers"
\* came out with "oversized trousers".
C12_Witness ==
    /\ Accepted
    /\ HasPhraseAtWord("baggy trousers", 5, Lower(Remainder(sentence)))
    /\ Contains("oversized trousers", Lower(canonical))
    /\ ~Contains("baggy", Lower(canonical))

====
